---- MODULE Spec2Model ----
(***************************************************************************)
(* redutils: the pager (Pages), the paginated session (RedPaginator and    *)
(* PaginatorView), the embed batcher (create_embeds),                      *)
(*                                                                         *)
(* and the selection prompt (AutoComplete), get_or_fetch, group_items_by.   *)
(*                                                                         *)
(* Six specifications share this module:                                   *)
(*   SpecPages   a Pages object and a caller reading its properties        *)
(*   Spec        one RedPaginator.start session and its button handlers    *)
(*   SpecEmbeds  calls of create_embeds on bounded inputs                  *)
(*   SpecPrompt  one AutoComplete.prompt_correct_input call                *)
(*   SpecFetch   calls of get_or_fetch against every answer of its object  *)
(*   SpecGroup   calls of group_items_by on bounded inputs                 *)
(***************************************************************************)
EXTENDS Integers, Sequences, FiniteSets, Bags, TLC

VARIABLES
    \* ---- Pages (paginator.py, class Pages)
    pages,            \* Pages.pages: the list of page contents
    cur_page,         \* Pages.cur_page: the 1-based cursor
    \* ---- the caller of a Pages property (SpecPages)
    op,               \* the property read last
    prev,             \* cur_page before that read
    ret,              \* what the read returned: None or Some(Page)
    \* ---- RedPaginator / PaginatorView (Spec)
    stage,            \* "new", "sent" (one page, no view), "session", "IndexError"
    lines,            \* RedPaginator.lines
    per_page,         \* RedPaginator.per_page
    author,           \* ctx.author
    show_page_count,  \* RedPaginator.show_page_count
    disabled,         \* children[k].disabled, k = 0..3
    style,            \* children[k].style
    embed,            \* PaginatorView.embed
    finished,         \* the view has timed out: it dispatches nothing more
    timer,            \* on_timeout: "idle", "edit", "done", "suppressed" or an exception
    timerView,        \* the components on_timeout's message.edit sends
    message,          \* what the chat shows: embed and components
    tasks,            \* the button callbacks in flight: a bag of records
    outcome,          \* how the callback that ended last ended
    notices,          \* ephemeral rejection messages sent, per user
    \* ---- create_embeds (SpecEmbeds)
    ce_pc,            \* "ready", "returned"
    ce_arguments,     \* the argument records
    ce_per_page,      \* None or Some(p)
    ce_result,        \* None or Some(list of embed descriptions)
    \* ---- AutoComplete / PromptView / PromptSelect (SpecPrompt)
    pr_author,        \* ctx.author
    pr_caller,        \* prompt_correct_input: "waiting", "returned", "raised"
    pr_result,        \* what prompt_correct_input returned: None or Some(item)
    pr_item,          \* PromptView.item: None or Some(item)
    pr_stopped,       \* the view has stopped (stop() or timeout): wait() is over
    pr_deleted,       \* the prompt message is deleted
    pr_tasks,         \* PromptSelect.callback runs in flight: a bag of records
    pr_selected,      \* history: the items ctx.author has selected
    pr_ignored,       \* history: interactions of other users turned away
    \* ---- get_or_fetch (SpecFetch)
    gf_pc,            \* "ready", "done"
    gf_obj,           \* how obj answers get_, fetch_ and _fetch_
    gf_default,       \* MISSING or Some(value)
    gf_result,        \* [kind: "return" or "raise", value]
    \* ---- group_items_by (SpecGroup)
    gi_pc,            \* "ready", "returned"
    gi_items,         \* the items
    gi_key_path,      \* the key path
    gi_result         \* the groups returned

pagesVars == <<pages, cur_page>>
callerVars == <<op, prev, ret>>
sessVars == <<stage, lines, per_page, author, show_page_count, disabled, style,
              embed, finished, timer, timerView, message, tasks, outcome,
              notices>>
embedVars == <<ce_pc, ce_arguments, ce_per_page, ce_result>>
promptVars == <<pr_author, pr_caller, pr_result, pr_item, pr_stopped,
                pr_deleted, pr_tasks, pr_selected, pr_ignored>>
fetchVars == <<gf_pc, gf_obj, gf_default, gf_result>>
groupVars == <<gi_pc, gi_items, gi_key_path, gi_result>>
vars == <<pagesVars, callerVars, sessVars, embedVars, promptVars, fetchVars,
          groupVars>>

\* ---------------------------------------------------------------- bounds
MaxPages == 3        \* SpecPages: longest page list
MaxLines == 3        \* Spec: most lines added before start
MaxPerPage == 2      \* Spec: largest RedPaginator.per_page
MaxTasks == 2        \* Spec: button callbacks in flight together
MaxNotices == 1      \* Spec: rejection notices counted per user
MaxArgs == 4         \* SpecEmbeds: longest argument list
MaxEmbedPerPage == 2 \* SpecEmbeds: largest per_page
MaxPromptTasks == 2  \* SpecPrompt: select callbacks in flight together
MaxIgnored == 1      \* SpecPrompt: turned-away interactions counted
MaxItems == 3        \* SpecGroup: longest item list

\* Optional[T]: None, or Some(x)
None == <<>>
Some(x) == <<x>>

\* ------------------------------------------------------------------ Pages
Page(index, content) == [index |-> index, content |-> content]

total(ps) == Len(ps)

\* list[k] as Python reads it: k counts from 0, and a negative k counts
\* from the end.
getitem(list, k) == IF k >= 0 THEN list[k + 1] ELSE list[Len(list) + k + 1]

\* Each property maps the object (ps, cur) to the cursor it leaves and the
\* value it returns.
current_page(ps, cur) == Page(cur, getitem(ps, cur - 1))

\* next_page that wraps to the first page at the end
next_page_wraps(ps, cur) ==
    IF cur = total(ps)
    THEN [cur |-> 1, ret |-> Some(current_page(ps, 1))]
    ELSE [cur |-> cur + 1, ret |-> Some(current_page(ps, cur + 1))]

next_page(ps, cur) ==
    IF cur = total(ps)
    THEN [cur |-> cur, ret |-> None]
    ELSE [cur |-> cur + 1, ret |-> Some(current_page(ps, cur + 1))]

\* previous_page without its boundary test
previous_page_unguarded(ps, cur) ==
    [cur |-> cur - 1, ret |-> Some(current_page(ps, cur - 1))]

previous_page(ps, cur) ==
    IF cur = 1
    THEN [cur |-> cur, ret |-> None]
    ELSE [cur |-> cur - 1, ret |-> Some(current_page(ps, cur - 1))]

first_page(ps, cur) ==
    [cur |-> 1, ret |-> Some(current_page(ps, 1))]

\* last_page that takes the last 0-based index for the cursor
last_page_zero_based(ps, cur) ==
    [cur |-> total(ps) - 1, ret |-> Some(current_page(ps, total(ps) - 1))]

last_page(ps, cur) ==
    [cur |-> total(ps), ret |-> Some(current_page(ps, total(ps)))]

\* ------------------------------------------------- SpecPages: Pages alone
\* A string is written as the sequence of its characters; the character k
\* (k >= 1) stands for the text of line k, and 0 is the newline.
PageContents == {<<1, 0>>, <<2, 0>>}

PageLists == UNION {[1..n -> PageContents] : n \in 1..MaxPages}

SessionUnused ==
    /\ stage = "unused" /\ lines = <<>> /\ per_page = 1 /\ author = "u1"
    /\ show_page_count = FALSE /\ disabled = <<>> /\ style = <<>>
    /\ embed = <<>> /\ finished = FALSE /\ timer = "idle" /\ timerView = <<>>
    /\ message = <<>> /\ tasks = <<>> /\ outcome = "" /\ notices = <<>>

PagesUnused == pages = <<>> /\ cur_page = 0

EmbedsUnused ==
    /\ ce_pc = "unused" /\ ce_arguments = <<>> /\ ce_per_page = None
    /\ ce_result = None

CallerUnused == op = "unused" /\ prev = 0 /\ ret = None

PromptUnused ==
    /\ pr_author = "u1" /\ pr_caller = "unused" /\ pr_result = None
    /\ pr_item = None /\ pr_stopped = FALSE /\ pr_deleted = FALSE
    /\ pr_tasks = <<>> /\ pr_selected = {} /\ pr_ignored = 0

FetchUnused ==
    /\ gf_pc = "unused" /\ gf_obj = <<>> /\ gf_default = None
    /\ gf_result = <<>>

GroupUnused ==
    /\ gi_pc = "unused" /\ gi_items = <<>> /\ gi_key_path = <<>>
    /\ gi_result = <<>>

UtilsUnused == PromptUnused /\ FetchUnused /\ GroupUnused

\* Pages.__init__
InitPages ==
    /\ pages \in PageLists
    /\ cur_page = 1
    /\ op = "init" /\ prev = 1 /\ ret = None
    /\ SessionUnused /\ EmbedsUnused /\ UtilsUnused

Read(name, r) ==
    /\ op' = name
    /\ prev' = cur_page
    /\ cur_page' = r.cur
    /\ ret' = r.ret
    /\ UNCHANGED <<pages, sessVars, embedVars, promptVars, fetchVars,
                   groupVars>>

ReadCurrent ==
    Read("current_page", [cur |-> cur_page, ret |-> Some(current_page(pages, cur_page))])

ReadNext == Read("next_page", next_page(pages, cur_page))

ReadPrevious == Read("previous_page", previous_page(pages, cur_page))

ReadFirst == Read("first_page", first_page(pages, cur_page))

ReadLast == Read("last_page", last_page(pages, cur_page))

NextPages ==
    \/ ReadCurrent
    \/ ReadNext
    \/ ReadPrevious
    \/ ReadFirst
    \/ ReadLast

SpecPages == InitPages /\ [][NextPages]_vars

\* ------------------------------------------ RedPaginator and PaginatorView
Users == {"u1", "u2"}

\* The four buttons by custom_id; children[0..3] in this order.
Buttons == {"first", "previous", "next", "last"}

newline == <<0>>

Min2(a, b) == IF a < b THEN a ELSE b

RECURSIVE get_chunks(_, _)
get_chunks(iterable, size) ==
    IF iterable = <<>>
    THEN <<>>
    ELSE <<SubSeq(iterable, 1, Min2(size, Len(iterable)))>>
         \o get_chunks(SubSeq(iterable, Min2(size, Len(iterable)) + 1, Len(iterable)), size)

\* "".join(page)
RECURSIVE join(_)
join(strs) == IF strs = <<>> THEN <<>> ELSE Head(strs) \o join(Tail(strs))

\* f"{line}{sep}"
add_lines(line, sep) == line \o sep

\* f"Page {index} of {total}"
footer_text(index, n) == [page |-> index, of |-> n]

\* RedPaginator.embed
paginator_embed(ps, cur, show) ==
    [description |-> current_page(ps, cur).content,
     footer |-> IF show
                THEN Some(footer_text(current_page(ps, cur).index, total(ps)))
                ELSE None]

\* Before start there is no view, embed or message: these stand for "none".
NoChildren == [b \in Buttons |-> FALSE]
NoStyle == [b \in Buttons |-> "green"]
NoEmbed == [description |-> <<>>, footer |-> None]
NoMessage == [embed |-> NoEmbed, view |-> None]
\* A callback in flight: at the await of defer() (pc "defer", the button in
\* btn), or at the await of message.edit (pc "edit", the payload in out).
Task(pc, user, btn, out) == [pc |-> pc, user |-> user, btn |-> btn, out |-> out]

\* PaginatorView.__init__: the buttons as declared, then lines 142-144
view_init(cur) ==
    [b \in Buttons |-> cur = 1 /\ b \in {"first", "previous"}]

\* _lock whose first-page branch leaves next and last as they were
_lock_keeps_next(dis, cur, n) ==
    IF cur = n
    THEN [b \in Buttons |-> b \in {"next", "last"}]
    ELSE IF cur = 1
    THEN [b \in Buttons |-> IF b \in {"first", "previous"} THEN TRUE ELSE dis[b]]
    ELSE IF 1 < cur /\ cur < n
    THEN [b \in Buttons |-> FALSE]
    ELSE dis

\* PaginatorView._lock
_lock(dis, cur, n) ==
    IF cur = n
    THEN [b \in Buttons |-> b \in {"next", "last"}]
    ELSE IF cur = 1
    THEN [b \in Buttons |-> b \in {"first", "previous"}]
    ELSE IF 1 < cur /\ cur < n
    THEN [b \in Buttons |-> FALSE]
    ELSE dis

\* PaginatorView._update_embed, for a page that is not None
_update_embed(em, page, show, n) ==
    [description |-> page.content,
     footer |-> IF show THEN Some(footer_text(page.index, n)) ELSE em.footer]

\* interaction_check that lets everyone through
interaction_check_open(user, owner) == TRUE

\* PaginatorView.interaction_check
interaction_check(user, owner) == user = owner

\* on_timeout that stops one child short
timeout_children_short == [b \in Buttons |-> b # "last"]

\* PaginatorView.on_timeout, line 181-182: child.disabled for every child
timeout_children == [b \in Buttons |-> TRUE]

\* ---- RedPaginator.__init__
Init ==
    /\ stage = "new"
    /\ lines = <<>>
    /\ per_page \in 1..MaxPerPage
    /\ author \in Users
    /\ show_page_count \in BOOLEAN
    /\ PagesUnused
    /\ disabled = NoChildren /\ style = NoStyle /\ embed = NoEmbed
    /\ finished = FALSE /\ timer = "idle"
    /\ timerView = [disabled |-> NoChildren, style |-> NoStyle]
    /\ message = NoMessage
    /\ tasks = EmptyBag
    /\ outcome = "none"
    /\ notices = [u \in Users |-> 0]
    /\ CallerUnused /\ EmbedsUnused /\ UtilsUnused

\* ---- RedPaginator.add_lines: the k-th call adds line k
AddLines ==
    /\ stage = "new"
    /\ Len(lines) < MaxLines
    /\ lines' = Append(lines, add_lines(<<Len(lines) + 1>>, newline))
    /\ UNCHANGED <<stage, per_page, author, show_page_count, disabled, style,
                   embed, finished, timer, timerView, message, tasks, outcome,
                   notices>>
    /\ UNCHANGED <<pagesVars, callerVars, embedVars, promptVars, fetchVars,
                   groupVars>>

\* The page list start() builds
start_pages(ls, size) ==
    [k \in 1..Len(get_chunks(ls, size)) |-> join(get_chunks(ls, size)[k])]

\* ---- RedPaginator.start
\* line 110 with a threshold of zero pages
single_page_sends_view(n) == ~(n > 0)

\* line 110: if not self.pages.total > 1
single_page(n) == ~(n > 1)

Start ==
    /\ stage = "new"
    /\ pages' = start_pages(lines, per_page)
    /\ cur_page' = 1
    /\ IF total(pages') = 0
       THEN \* self.embed reads pages[0] of an empty list
            /\ stage' = "IndexError"
            /\ UNCHANGED <<disabled, embed, message>>
       ELSE IF single_page(total(pages'))
       THEN /\ stage' = "sent"
            /\ message' = [embed |-> paginator_embed(pages', 1, show_page_count),
                           view |-> None]
            /\ UNCHANGED <<disabled, embed>>
       ELSE /\ stage' = "session"
            /\ disabled' = view_init(cur_page')
            /\ embed' = paginator_embed(pages', 1, show_page_count)
            /\ message' = [embed |-> paginator_embed(pages', 1, show_page_count),
                           view |-> Some([disabled |-> disabled', style |-> style])]
    /\ UNCHANGED <<lines, per_page, author, show_page_count, style, finished,
                   timer, timerView, tasks, outcome, notices>>
    /\ UNCHANGED <<callerVars, embedVars, promptVars, fetchVars,
                   groupVars>>

\* ---- a button press reaches the view: interaction_check, then the callback
\* up to its first await (interaction.response.defer()).  Only a button the
\* shown message has enabled can be pressed, and a view that has timed out
\* dispatches nothing.
Click(user, btn) ==
    /\ stage = "session"
    /\ ~finished
    /\ ~message.view[1].disabled[btn]
    /\ IF ~interaction_check(user, author)
       THEN /\ notices[user] < MaxNotices
            /\ notices' = [notices EXCEPT ![user] = @ + 1]
            /\ UNCHANGED tasks
       ELSE /\ BagCardinality(tasks) < MaxTasks
            /\ tasks' = tasks (+) SetToBag({Task("defer", user, btn, None)})
            /\ UNCHANGED notices
    /\ UNCHANGED <<stage, lines, per_page, author, show_page_count, disabled,
                   style, embed, finished, timer, timerView, message, outcome>>
    /\ UNCHANGED <<pagesVars, callerVars, embedVars, promptVars, fetchVars,
                   groupVars>>

\* The callback t from the return of defer() to the await of message.edit:
\* the page read (r), _update_embed, _lock, and the edit's payload taken from
\* the embed and the view as they are now.  A page of None makes
\* _update_embed raise AttributeError before it assigns anything.
Callback(t, btn, r) ==
    /\ t.pc = "defer"
    /\ t.btn = btn
    /\ cur_page' = r.cur
    /\ IF r.ret = None
       THEN /\ tasks' = tasks (-) SetToBag({t})
            /\ outcome' = "AttributeError"
            /\ UNCHANGED <<embed, disabled>>
       ELSE /\ embed' = _update_embed(embed, r.ret[1], show_page_count, total(pages))
            /\ disabled' = _lock(disabled, r.cur, total(pages))
            /\ tasks' = (tasks (-) SetToBag({t})) (+)
                        SetToBag({Task("edit", t.user, "",
                                       Some([embed |-> embed',
                                             view |-> Some([disabled |-> disabled',
                                                            style |-> style])]))})
            /\ UNCHANGED outcome
    /\ UNCHANGED <<stage, lines, per_page, author, show_page_count, style,
                   finished, timer, timerView, message, notices>>
    /\ UNCHANGED <<pages, callerVars, embedVars, promptVars, fetchVars,
                   groupVars>>

_first(t) == Callback(t, "first", first_page(pages, cur_page))

_previous(t) == Callback(t, "previous", previous_page(pages, cur_page))

_next(t) == Callback(t, "next", next_page(pages, cur_page))

_last(t) == Callback(t, "last", last_page(pages, cur_page))

\* ---- interaction.message.edit(embed=self.embed, view=self) completes
EditOk(t) ==
    /\ t.pc = "edit"
    /\ message' = t.out[1]
    /\ tasks' = tasks (-) SetToBag({t})
    /\ outcome' = "returned"
    /\ UNCHANGED <<stage, lines, per_page, author, show_page_count, disabled,
                   style, embed, finished, timer, timerView, notices>>
    /\ UNCHANGED <<pagesVars, callerVars, embedVars, promptVars, fetchVars,
                   groupVars>>

\* ---- ... or fails: discord.HTTPException leaves the callback
EditFail(t) ==
    /\ t.pc = "edit"
    /\ tasks' = tasks (-) SetToBag({t})
    /\ outcome' = "HTTPException"
    /\ UNCHANGED <<stage, lines, per_page, author, show_page_count, disabled,
                   style, embed, finished, timer, timerView, message, notices>>
    /\ UNCHANGED <<pagesVars, callerVars, embedVars, promptVars, fetchVars,
                   groupVars>>

\* ---- PaginatorView.on_timeout up to the await of message.edit(view=self)
on_timeout ==
    /\ stage = "session"
    /\ ~finished
    /\ finished' = TRUE
    /\ style' = [b \in Buttons |-> "grey"]
    /\ disabled' = timeout_children
    /\ timerView' = [disabled |-> disabled', style |-> style']
    /\ timer' = "edit"
    /\ UNCHANGED <<stage, lines, per_page, author, show_page_count, embed,
                   message, tasks, outcome, notices>>
    /\ UNCHANGED <<pagesVars, callerVars, embedVars, promptVars, fetchVars,
                   groupVars>>

\* ---- on_timeout's edit completes
TimeoutEditOk ==
    /\ timer = "edit"
    /\ message' = [message EXCEPT !.view = Some(timerView)]
    /\ timer' = "done"
    /\ UNCHANGED <<stage, lines, per_page, author, show_page_count, disabled,
                   style, embed, finished, timerView, tasks, outcome, notices>>
    /\ UNCHANGED <<pagesVars, callerVars, embedVars, promptVars, fetchVars,
                   groupVars>>

\* line 184: how the with block ends when its body raises exc
suppress(exc) == IF exc = "HTTPException" THEN "suppressed" ELSE exc

\* ---- ... or fails, and suppress(discord.HTTPException) swallows it
TimeoutEditFail ==
    /\ timer = "edit"
    /\ timer' = suppress("HTTPException")
    /\ UNCHANGED <<stage, lines, per_page, author, show_page_count, disabled,
                   style, embed, finished, timerView, message, tasks, outcome,
                   notices>>
    /\ UNCHANGED <<pagesVars, callerVars, embedVars, promptVars, fetchVars,
                   groupVars>>

Next ==
    \/ AddLines
    \/ Start
    \/ \E u \in Users, b \in Buttons : Click(u, b)
    \/ \E t \in BagToSet(tasks) : _first(t)
    \/ \E t \in BagToSet(tasks) : _previous(t)
    \/ \E t \in BagToSet(tasks) : _next(t)
    \/ \E t \in BagToSet(tasks) : _last(t)
    \/ \E t \in BagToSet(tasks) : EditOk(t)
    \/ \E t \in BagToSet(tasks) : EditFail(t)
    \/ on_timeout
    \/ TimeoutEditOk
    \/ TimeoutEditFail

Spec == Init /\ [][Next]_vars

\* ------------------------------------------------------------ create_embeds
\* A long string is written as a sequence of pieces [text, len]: a piece is
\* len characters that text names.  The newline is one character.
Piece(text, len) == [text |-> text, len |-> len]

NL == Piece("\n", 1)

RECURSIVE strlen(_)
strlen(str) == IF str = <<>> THEN 0 ELSE Head(str).len + strlen(Tail(str))

max_desc_length == 4096

\* An argument record, and the line fmt_line.format(**arg) renders from it:
\* the text the record names, as wide as the record says.
Arg(name, width) == [name |-> name, width |-> width]

format(arg) == <<Piece(arg.name, arg.width)>>

\* line 125 with >= for >
exceeds_at_budget(description, line) ==
    strlen(description) + strlen(line) + 1 >= max_desc_length

\* line 125 without len(embed.description)
exceeds_line_only(description, line) ==
    strlen(line) + 1 > max_desc_length

\* line 125: len(embed.description) + len(line) + 1 > max_desc_length
exceeds(description, line) ==
    strlen(description) + strlen(line) + 1 > max_desc_length

\* line 133: per_page is not None and 1 > 0 and i % per_page == 0
per_page_split(pp, i) == pp # None /\ 1 > 0 /\ i % pp[1] = 0

\* line 141 with = for +=
append_line_overwrites(description, line) == line \o <<NL>>

\* line 141: embed.description += fmt_line.format(**arg) + "\n"
append_line(description, line) == description \o line \o <<NL>>

\* The loop of lines 124-143 from record i (0-based) on; embeds are written
\* as their descriptions.
RECURSIVE create_embeds_loop(_, _, _, _, _, _)
create_embeds_loop(arguments, pp, i, embeds, description, append_list) ==
    IF i = Len(arguments)
    THEN [embeds |-> embeds, description |-> description, append_list |-> append_list]
    ELSE LET line == format(arguments[i + 1])
             closed == IF exceeds(description, line)
                       THEN TRUE
                       ELSE IF per_page_split(pp, i) THEN TRUE ELSE FALSE
             embeds1 == IF closed THEN Append(embeds, description) ELSE embeds
             description1 == IF closed THEN <<>> ELSE description
         IN create_embeds_loop(arguments, pp, i + 1, embeds1,
                               append_line(description1, line),
                               IF i = Len(arguments) - 1 THEN TRUE ELSE append_list)

\* lines 115-148
create_embeds_body(arguments, pp) ==
    LET end == create_embeds_loop(arguments, pp, 0, <<>>, <<>>, FALSE)
    IN Some(IF end.append_list THEN Append(end.embeds, end.description) ELSE end.embeds)

\* create_embeds without lines 112-113
create_embeds_unguarded(arguments, pp) == create_embeds_body(arguments, pp)

create_embeds(arguments, pp) ==
    IF arguments = <<>> THEN None ELSE create_embeds_body(arguments, pp)

\* ---- SpecEmbeds: one call of create_embeds
ArgNames == {"a", "b"}

\* A short line; a line two of which fill a description exactly; a line that
\* fills a description alone; a line that with its newline is longer than a
\* description.
ArgWidths == {3, 2047, 4095, 4096}

Args == {Arg(n, w) : n \in ArgNames, w \in ArgWidths}

ArgLists == UNION {[1..n -> Args] : n \in 0..MaxArgs}

InitEmbeds ==
    /\ ce_pc = "ready"
    /\ ce_arguments \in ArgLists
    /\ ce_per_page \in {None} \cup {Some(p) : p \in 1..MaxEmbedPerPage}
    /\ ce_result = None
    /\ PagesUnused /\ CallerUnused /\ SessionUnused /\ UtilsUnused

CallCreateEmbeds ==
    /\ ce_pc = "ready"
    /\ ce_result' = create_embeds(ce_arguments, ce_per_page)
    /\ ce_pc' = "returned"
    /\ UNCHANGED <<ce_arguments, ce_per_page, pagesVars, callerVars, sessVars,
                   promptVars, fetchVars, groupVars>>

NextEmbeds == CallCreateEmbeds

SpecEmbeds == InitEmbeds /\ [][NextEmbeds]_vars

\* ------------------------------------ AutoComplete, PromptView, PromptSelect
\* The items of `constricted`; each is one option of the select, and the
\* option's value is its label, str(item).
Candidates == {"x", "y"}

\* PromptView.interaction_check that lets everyone through
prompt_interaction_check_open(user, owner) == TRUE

\* PromptView.interaction_check
prompt_interaction_check(user, owner) == user = owner

\* prompt_correct_input without the test of lines 88-89
prompt_outcome_unchecked(item) == [caller |-> "returned", result |-> item]

\* prompt_correct_input, lines 88-91: what the call does once wait() is over
prompt_outcome(item) ==
    IF item = None
    THEN [caller |-> "raised", result |-> None]
    ELSE [caller |-> "returned", result |-> item]

\* A PromptSelect.callback run, suspended at the await named by pc:
\* "defer", "delete_original_response" or "message.delete".
PromptTask(pc, user, value) == [pc |-> pc, user |-> user, value |-> value]

\* ---- prompt_correct_input has built the view, sent it and awaits view.wait()
InitPrompt ==
    /\ pr_author \in Users
    /\ pr_caller = "waiting"
    /\ pr_result = None
    /\ pr_item = None
    /\ pr_stopped = FALSE
    /\ pr_deleted = FALSE
    /\ pr_tasks = EmptyBag
    /\ pr_selected = {}
    /\ pr_ignored = 0
    /\ PagesUnused /\ CallerUnused /\ SessionUnused /\ EmbedsUnused
    /\ FetchUnused /\ GroupUnused

\* ---- a user picks an option: interaction_check, then the callback up to
\* its await of defer(thinking=True).  A stopped view dispatches nothing and
\* a deleted message offers nothing to pick.
Select(user, value) ==
    /\ ~pr_stopped
    /\ ~pr_deleted
    /\ IF ~prompt_interaction_check(user, pr_author)
       THEN /\ pr_ignored < MaxIgnored
            /\ pr_ignored' = pr_ignored + 1
            /\ UNCHANGED <<pr_tasks, pr_selected>>
       ELSE /\ BagCardinality(pr_tasks) < MaxPromptTasks
            /\ pr_tasks' = pr_tasks (+) SetToBag({PromptTask("defer", user, value)})
            /\ pr_selected' = IF user = pr_author
                              THEN pr_selected \cup {value}
                              ELSE pr_selected
            /\ UNCHANGED pr_ignored
    /\ UNCHANGED <<pr_author, pr_caller, pr_result, pr_item, pr_stopped, pr_deleted>>
    /\ UNCHANGED <<pagesVars, callerVars, sessVars, embedVars, fetchVars, groupVars>>

\* ---- callback, lines 28-33: defer() is back; self.parent.item = selected[0];
\* then the await of delete_original_response()
CallbackRecord(t) ==
    /\ t.pc = "defer"
    /\ pr_item' = Some(t.value)
    /\ pr_tasks' = (pr_tasks (-) SetToBag({t})) (+)
                   SetToBag({PromptTask("delete_original_response", t.user, t.value)})
    /\ UNCHANGED <<pr_author, pr_caller, pr_result, pr_stopped, pr_deleted,
                   pr_selected, pr_ignored>>
    /\ UNCHANGED <<pagesVars, callerVars, sessVars, embedVars, fetchVars, groupVars>>

\* ---- callback, line 34: then the await of interaction.message.delete()
CallbackDeleteResponse(t) ==
    /\ t.pc = "delete_original_response"
    /\ pr_tasks' = (pr_tasks (-) SetToBag({t})) (+)
                   SetToBag({PromptTask("message.delete", t.user, t.value)})
    /\ UNCHANGED <<pr_author, pr_caller, pr_result, pr_item, pr_stopped,
                   pr_deleted, pr_selected, pr_ignored>>
    /\ UNCHANGED <<pagesVars, callerVars, sessVars, embedVars, fetchVars, groupVars>>

\* ---- callback, lines 34-36: the message is deleted and the view stopped; a
\* message deleted already makes delete() raise, and stop() is not reached
CallbackDeleteMessage(t) ==
    /\ t.pc = "message.delete"
    /\ pr_tasks' = pr_tasks (-) SetToBag({t})
    /\ IF pr_deleted
       THEN UNCHANGED <<pr_deleted, pr_stopped>>
       ELSE pr_deleted' = TRUE /\ pr_stopped' = TRUE
    /\ UNCHANGED <<pr_author, pr_caller, pr_result, pr_item, pr_selected, pr_ignored>>
    /\ UNCHANGED <<pagesVars, callerVars, sessVars, embedVars, fetchVars, groupVars>>

\* ---- the view's timeout
PromptTimeout ==
    /\ ~pr_stopped
    /\ pr_stopped' = TRUE
    /\ UNCHANGED <<pr_author, pr_caller, pr_result, pr_item, pr_deleted,
                   pr_tasks, pr_selected, pr_ignored>>
    /\ UNCHANGED <<pagesVars, callerVars, sessVars, embedVars, fetchVars, groupVars>>

\* ---- prompt_correct_input, lines 86-91: view.wait() is over
WaitReturns ==
    /\ pr_caller = "waiting"
    /\ pr_stopped
    /\ pr_caller' = prompt_outcome(pr_item).caller
    /\ pr_result' = prompt_outcome(pr_item).result
    /\ UNCHANGED <<pr_author, pr_item, pr_stopped, pr_deleted, pr_tasks,
                   pr_selected, pr_ignored>>
    /\ UNCHANGED <<pagesVars, callerVars, sessVars, embedVars, fetchVars, groupVars>>

NextPrompt ==
    \/ \E u \in Users, v \in Candidates : Select(u, v)
    \/ \E t \in BagToSet(pr_tasks) : CallbackRecord(t)
    \/ \E t \in BagToSet(pr_tasks) : CallbackDeleteResponse(t)
    \/ \E t \in BagToSet(pr_tasks) : CallbackDeleteMessage(t)
    \/ PromptTimeout
    \/ WaitReturns

SpecPrompt == InitPrompt /\ [][NextPrompt]_vars

\* ------------------------------------------------------------- get_or_fetch
\* discord.utils.MISSING
MISSING == <<>>

\* How obj answers: get_<attr> is "missing" (no such method), "None" or
\* "obj"; fetch_<attr> is "missing", raises "HTTPException" or returns "obj";
\* _fetch_<attr> is "missing", raises "HTTPException", returns "None" or "obj".
Answers(g, f, u) == [get_ |-> g, fetch_ |-> f, _fetch_ |-> u]

Return(value) == [kind |-> "return", value |-> value]
Raise(exc) == [kind |-> "raise", value |-> exc]

\* lines 394-407
get_or_fetch(obj, default) ==
    IF obj.get_ = "missing" THEN Raise("AttributeError")
    ELSE IF obj.get_ # "None" THEN Return(obj.get_)
    ELSE IF obj.fetch_ = "missing"
    THEN \* except AttributeError: what this handler raises leaves the try
         IF obj._fetch_ = "missing" THEN Raise("AttributeError")
         ELSE IF obj._fetch_ = "HTTPException" THEN Raise("HTTPException")
         ELSE IF obj._fetch_ = "None" THEN Raise("ValueError")
         ELSE Return(obj._fetch_)
    ELSE IF obj.fetch_ = "HTTPException"
    THEN \* except (discord.HTTPException, ValueError)
         IF default # MISSING THEN Return(default[1]) ELSE Raise("HTTPException")
    ELSE Return(obj.fetch_)

InitFetch ==
    /\ gf_pc = "ready"
    /\ gf_obj \in {Answers(g, f, u) : g \in {"missing", "None", "obj"},
                                      f \in {"missing", "HTTPException", "obj"},
                                      u \in {"missing", "HTTPException", "None", "obj"}}
    /\ gf_default \in {MISSING, Some("default"), Some("None")}
    /\ gf_result = <<>>
    /\ PagesUnused /\ CallerUnused /\ SessionUnused /\ EmbedsUnused
    /\ PromptUnused /\ GroupUnused

CallGetOrFetch ==
    /\ gf_pc = "ready"
    /\ gf_result' = get_or_fetch(gf_obj, gf_default)
    /\ gf_pc' = "done"
    /\ UNCHANGED <<gf_obj, gf_default, pagesVars, callerVars, sessVars,
                   embedVars, promptVars, groupVars>>

NextFetch == CallGetOrFetch

SpecFetch == InitFetch /\ [][NextFetch]_vars

\* ----------------------------------------------------------- group_items_by
\* An item: its place in the list, a value, and a kind that has a value.
Item(id, value, kind) == [id |-> id, value |-> value, kind |-> [value |-> kind]]

\* A key is written as its attribute names with "." between them.
KeyPaths ==
    {<<>>, <<<<"value">>>>, <<<<"kind", ".", "value">>>>,
     <<<<"value">>, <<"kind", ".", "value">>>>,
     <<<<"kind", ".", "value">>, <<"value">>>>}

ItemLists ==
    UNION {{[k \in 1..n |-> Item(k, f[k][1], f[k][2])] :
                f \in [1..n -> {1, 2} \X {1, 2}]} : n \in 0..MaxItems}

\* key.split(".")
split_dots(key) == SelectSeq(key, LAMBDA c : c # ".")

RECURSIVE get_attr(_, _)
get_attr(obj, path) ==
    IF path = <<>> THEN obj ELSE get_attr(obj[Head(path)], Tail(path))

\* lines 266-271: the dict groups, in insertion order, as value-group pairs
RECURSIVE build_groups(_, _, _)
build_groups(items, key, groups) ==
    IF items = <<>>
    THEN groups
    ELSE LET value == get_attr(Head(items), split_dots(key))
         IN build_groups(Tail(items), key,
                IF \A k \in 1..Len(groups) : groups[k].value # value
                THEN Append(groups, [value |-> value, group |-> <<Head(items)>>])
                ELSE groups)

RECURSIVE group_items_by(_, _)
RECURSIVE extend_sub_groups(_, _)

\* lines 274-276
extend_sub_groups(groups, sub_key_path) ==
    IF groups = <<>>
    THEN <<>>
    ELSE group_items_by(Head(groups).group, sub_key_path)
         \o extend_sub_groups(Tail(groups), sub_key_path)

\* lines 257-278
group_items_by(items, key_path) ==
    IF key_path = <<>>
    THEN <<items>>
    ELSE extend_sub_groups(build_groups(items, key_path[1], <<>>), Tail(key_path))

InitGroup ==
    /\ gi_pc = "ready"
    /\ gi_items \in ItemLists
    /\ gi_key_path \in KeyPaths
    /\ gi_result = <<>>
    /\ PagesUnused /\ CallerUnused /\ SessionUnused /\ EmbedsUnused
    /\ PromptUnused /\ FetchUnused

CallGroupItemsBy ==
    /\ gi_pc = "ready"
    /\ gi_result' = group_items_by(gi_items, gi_key_path)
    /\ gi_pc' = "returned"
    /\ UNCHANGED <<gi_items, gi_key_path, pagesVars, callerVars, sessVars,
                   embedVars, promptVars, fetchVars>>

NextGroup == CallGroupItemsBy

SpecGroup == InitGroup /\ [][NextGroup]_vars

\* ------------------------------------------------ claims on Pages (C1-C4)

\* C1: for a Pages object built from a non-empty list, after any sequence of
\* reads of current_page, next_page, previous_page, first_page and last_page
\* the cursor is within 1..total, and a Page that a read returns carries the
\* cursor as its index and the content of the page at the cursor.
C1_CursorInRange ==
    /\ cur_page \in 1..total(pages)
    /\ ret # None => /\ ret[1].index = cur_page
                     /\ ret[1].content = pages[cur_page]

C1_Witness ==
    /\ total(pages) = 3
    /\ op = "current_page" /\ cur_page = 2 /\ ret = Some(Page(2, pages[2]))

\* C2: next_page read at cur_page = total, and previous_page read at
\* cur_page = 1, leave the cursor and the page list as they were.
C2_BoundaryNoOp ==
    [][/\ (op' = "next_page" /\ cur_page = total(pages)) => UNCHANGED pagesVars
       /\ (op' = "previous_page" /\ cur_page = 1) => UNCHANGED pagesVars]_vars

C2_Witness ==
    /\ total(pages) >= 2
    /\ op = "next_page" /\ prev = total(pages) /\ cur_page = total(pages)

\* C3 (as claimed): next_page read at the last page, and previous_page read
\* at the first page, return the current page.
C3_BoundaryReturnsCurrent ==
    /\ (op = "next_page" /\ prev = total(pages))
          => ret = Some(current_page(pages, prev))
    /\ (op = "previous_page" /\ prev = 1)
          => ret = Some(current_page(pages, prev))

\* C4: from any cursor, first_page sets the cursor to 1 and last_page sets it
\* to total, each returning the Page at the new cursor; last_page read right
\* after first_page takes the cursor from 1 to total.
C4_FirstLast ==
    /\ [](/\ op = "first_page" =>
                cur_page = 1 /\ ret = Some(Page(1, pages[1]))
          /\ op = "last_page" =>
                /\ cur_page = total(pages)
                /\ ret = Some(Page(total(pages), pages[total(pages)])))
    /\ [][(op = "first_page" /\ op' = "last_page")
             => cur_page = 1 /\ cur_page' = total(pages)]_vars

C4_Witness ==
    /\ total(pages) = 3
    /\ op = "last_page" /\ prev = 1 /\ cur_page = 3

\* --------------------------------------------- claims on the session (C5-C7)
Quiescent == tasks = EmptyBag

\* C5: in a session that has not timed out (total >= 2), from its start on,
\* first and previous are disabled exactly when cur_page = 1, and next and
\* last are disabled exactly when cur_page = total.
C5_Enablement ==
    (stage = "session" /\ ~finished) =>
        /\ total(pages) >= 2
        /\ disabled["first"] = (cur_page = 1)
        /\ disabled["previous"] = (cur_page = 1)
        /\ disabled["next"] = (cur_page = total(pages))
        /\ disabled["last"] = (cur_page = total(pages))

C5_Witness ==
    /\ stage = "session" /\ ~finished
    /\ total(pages) = 3 /\ cur_page = 2
    /\ outcome = "returned"
    /\ \A b \in Buttons : ~disabled[b] /\ ~message.view[1].disabled[b]

\* C6: a button press by anyone but ctx.author starts no callback, and the
\* step that rejects it changes nothing but the notice sent to that user:
\* not the cursor, the buttons, the embed or the shown message.
C6_NonOwnerRejected ==
    /\ [](\A t \in BagToSet(tasks) : t.user = author)
    /\ [](notices[author] = 0)
    /\ [][notices' # notices =>
            /\ \E u \in Users \ {author} :
                    notices' = [notices EXCEPT ![u] = @ + 1]
            /\ UNCHANGED <<pages, cur_page, disabled, style, embed, message,
                           tasks, finished>>]_vars

C6_Witness ==
    /\ stage = "session" /\ cur_page = 2
    /\ \E u \in Users \ {author} : notices[u] = 1

AllOff == \A b \in Buttons : disabled[b] /\ style[b] = "grey"

\* C7: the timeout disables and greys all four buttons; and when it ran with
\* no callback in flight, they stay disabled and grey from then on, no
\* callback starts, and the cursor, the embed and the shown embed do not
\* change again.
C7_TimeoutFinal ==
    [][/\ (~finished /\ finished') => AllOff'
       /\ (finished /\ Quiescent /\ AllOff) =>
             /\ finished' /\ AllOff'
             /\ tasks' = tasks
             /\ cur_page' = cur_page
             /\ embed' = embed
             /\ message'.embed = message.embed]_vars

C7_Witness ==
    /\ finished /\ Quiescent /\ timer = "done"
    /\ cur_page = 2
    /\ outcome = "returned"
    /\ \A b \in Buttons : disabled[b] /\ message.view[1].disabled[b]

\* ------------------------------------------- claims on create_embeds (C8-C10)
\* The number of lines in a description: each line ends in one newline.
RECURSIVE line_count(_)
line_count(str) ==
    IF str = <<>> THEN 0
    ELSE (IF Head(str) = NL THEN 1 ELSE 0) + line_count(Tail(str))

\* The first n lines of a description, newlines included.
RECURSIVE first_lines(_, _)
first_lines(str, n) ==
    IF n = 0 \/ str = <<>> THEN <<>>
    ELSE <<Head(str)>> \o first_lines(Tail(str), IF Head(str) = NL THEN n - 1 ELSE n)

RECURSIVE concat(_)
concat(strs) == IF strs = <<>> THEN <<>> ELSE Head(strs) \o concat(Tail(strs))

\* Every rendered line followed by its newline, in input order.
RECURSIVE rendered(_)
rendered(arguments) ==
    IF arguments = <<>> THEN <<>>
    ELSE format(Head(arguments)) \o <<NL>> \o rendered(Tail(arguments))

ShortLines == \A k \in 1..Len(ce_arguments) : ce_arguments[k].width = 3

\* C8 (as claimed): with per_page = p and short lines, n >= 1 records give
\* ceil(n / p) embeds, each of p lines except possibly the last.
C8_PerPageSizes ==
    (ce_pc = "returned" /\ ce_per_page # None /\ ce_arguments # <<>> /\ ShortLines) =>
        /\ ce_result # None
        /\ LET p == ce_per_page[1]
               n == Len(ce_arguments)
               E == ce_result[1]
           IN /\ Len(E) = (n + p - 1) \div p
              /\ \A k \in 1..Len(E) :
                    line_count(E[k]) = IF k < Len(E) THEN p ELSE n - p * (Len(E) - 1)

\* C9: create_embeds of an empty argument list returns None: not an empty
\* list, and not a list of one empty embed.
C9_EmptyGivesNone ==
    (ce_pc = "returned" /\ ce_arguments = <<>>) => ce_result = None

C9_Witness ==
    ce_pc = "returned" /\ ce_arguments = <<>> /\ ce_per_page = Some(2)

\* C10: with per_page unset the lines are packed in input order, and a new
\* embed is started before a line exactly when the description so far, the
\* line and its newline together are longer than max_desc_length.
C10_Greedy ==
    (ce_pc = "returned" /\ ce_per_page = None /\ ce_arguments # <<>>) =>
        /\ ce_result # None
        /\ LET E == ce_result[1]
           IN /\ concat(E) = rendered(ce_arguments)
              \* a line that opens a new embed did not fit the one before
              /\ \A k \in 1..(Len(E) - 1) :
                    /\ E[k + 1] # <<>>
                    /\ strlen(E[k]) + strlen(first_lines(E[k + 1], 1)) > max_desc_length
              \* a line that does not open a new embed fitted
              /\ \A k \in 1..Len(E) :
                    \A j \in (IF k = 1 THEN 1 ELSE 2)..line_count(E[k]) :
                        strlen(first_lines(E[k], j)) <= max_desc_length

\* Three lines of which two fill a description exactly give embeds of 2 lines
\* and 1 line.
C10_Witness ==
    /\ ce_pc = "returned" /\ ce_per_page = None
    /\ Len(ce_arguments) = 3
    /\ \A k \in 1..3 : ce_arguments[k].width = 2047
    /\ ce_result # None
    /\ Len(ce_result[1]) = 2
    /\ line_count(ce_result[1][1]) = 2 /\ strlen(ce_result[1][1]) = max_desc_length
    /\ line_count(ce_result[1][2]) = 1

\* C11: when every rendered line with its newline fits max_desc_length, no
\* embed create_embeds returns has a longer description, whatever per_page.
C11_WithinBudget ==
    (/\ ce_pc = "returned" /\ ce_result # None
     /\ \A k \in 1..Len(ce_arguments) :
            strlen(format(ce_arguments[k])) + 1 <= max_desc_length) =>
        \A k \in 1..Len(ce_result[1]) : strlen(ce_result[1][k]) <= max_desc_length

\* Lines that do not all fit one description, split by length under a
\* per_page that would have kept them together.
C11_Witness ==
    /\ ce_pc = "returned" /\ ce_per_page = Some(2)
    /\ Len(ce_arguments) = 4
    /\ ce_arguments[2].width = 2047 /\ ce_arguments[3].width = 4095
    /\ ce_arguments[4].width = 3
    /\ ce_result # None
    /\ \E k \in 1..Len(ce_result[1]) : strlen(ce_result[1][k]) = max_desc_length

\* --------------------------------- claims on the selection prompt (C12, C13)

\* C12: prompt_correct_input returns only an item that ctx.author selected
\* while the view was open, and when view.wait() is over it raises exactly
\* when no item is recorded and returns the recorded item otherwise.
C12_PromptResult ==
    /\ [](pr_caller = "returned" =>
              pr_result # None /\ pr_result[1] \in pr_selected)
    /\ [](pr_caller = "raised" => pr_result = None)
    /\ [][(pr_caller = "waiting" /\ pr_caller' # "waiting") =>
              /\ pr_stopped
              /\ (pr_caller' = "raised") = (pr_item = None)
              /\ pr_item # None => pr_result' = pr_item]_vars

C12_Witness ==
    /\ pr_caller = "returned" /\ pr_result = Some("y")
    /\ pr_deleted /\ pr_ignored = 1

\* C13: an interaction of anyone but ctx.author starts no callback, and
\* turning it away leaves the item, the message and the open view as they
\* were.
C13_OthersIgnored ==
    /\ [](pr_caller # "unused" =>
              \A t \in BagToSet(pr_tasks) : t.user = pr_author)
    /\ [][pr_ignored' # pr_ignored =>
              /\ ~pr_stopped' /\ ~pr_deleted'
              /\ UNCHANGED <<pr_item, pr_stopped, pr_deleted, pr_tasks,
                             pr_caller, pr_result>>]_vars

C13_Witness ==
    /\ pr_ignored = 1 /\ pr_item = None /\ ~pr_stopped /\ ~pr_deleted
    /\ pr_tasks = EmptyBag

\* C19 (as claimed): the item goes from unset to set once: once an item is
\* recorded, no selection changes it.
C19_ItemSetOnce ==
    [][pr_item # None => pr_item' = pr_item]_vars

\* ------------------------------------------------ claims on the utilities
NotFound ==
    /\ gf_obj.get_ = "None"
    /\ \/ gf_obj.fetch_ = "HTTPException"
       \/ gf_obj.fetch_ = "missing" /\ gf_obj._fetch_ = "None"

\* C14 (as claimed): when the object is found neither in the cache nor by
\* the fetch (fetch_ failing, or the _fetch_ fallback finding nothing),
\* get_or_fetch returns the default if one is given, and raises if not.
C14_DefaultOnEveryPath ==
    (gf_pc = "done" /\ NotFound) =>
        IF gf_default # MISSING
        THEN gf_result = Return(gf_default[1])
        ELSE gf_result.kind = "raise"

SameKeys(x, y) ==
    \A k \in 1..Len(gi_key_path) :
        get_attr(x, split_dots(gi_key_path[k])) = get_attr(y, split_dots(gi_key_path[k]))

\* C15 (as claimed): group_items_by partitions its input: every item is in
\* exactly one group, the groups hold as many items as the input, and items
\* equal on every key are in one group.
C15_Partition ==
    gi_pc = "returned" =>
        LET flat == concat(gi_result)
        IN /\ Len(flat) = Len(gi_items)
           /\ \A k \in 1..Len(gi_items) :
                 Cardinality({j \in 1..Len(flat) : flat[j] = gi_items[k]}) = 1
           /\ \A i, j \in 1..Len(gi_items) :
                 SameKeys(gi_items[i], gi_items[j]) =>
                    \E g \in 1..Len(gi_result) :
                       /\ \E x \in 1..Len(gi_result[g]) : gi_result[g][x] = gi_items[i]
                       /\ \E y \in 1..Len(gi_result[g]) : gi_result[g][y] = gi_items[j]

\* ------------------------------------------------ claims on the session (C16-C18)
\* C16: start creates a view only when there are at least two pages; with
\* exactly one page the content is sent directly, with no view, and nothing
\* of a session ever happens; with two or more pages the view is created.
C16_SessionOnlyForManyPages ==
    /\ stage = "session" => total(pages) >= 2 /\ message.view # None
    /\ stage = "sent" =>
          /\ total(pages) = 1
          /\ message = [embed |-> paginator_embed(pages, 1, show_page_count),
                        view |-> None]
          /\ tasks = EmptyBag /\ ~finished /\ cur_page = 1
    /\ (stage # "new" /\ total(pages) >= 2) => stage = "session"

C16_Witness ==
    stage = "sent" /\ total(pages) = 1 /\ Len(lines) >= 1 /\ message.view = None

\* C17 (as claimed): once on_timeout has run, all four buttons are disabled
\* in every later state, also when a callback accepted before the timeout
\* resumes after it.
C17_ExpiredStaysDisabled ==
    finished => \A b \in Buttons : disabled[b]

\* C18 (as claimed): accepted button presses are handled one at a time: no
\* two callbacks are ever in flight together.
C18_OneCallbackAtATime ==
    BagCardinality(tasks) <= 1

\* ------------------------------------------------ claims on create_embeds (C20)
\* C20 (as claimed): every embed create_embeds returns holds at least one
\* rendered line; the per_page split never fires at record 0.
C20_NoEmptyEmbed ==
    (ce_pc = "returned" /\ ce_result # None) =>
        \A k \in 1..Len(ce_result[1]) : line_count(ce_result[1][k]) >= 1

\* C21: for a non-empty argument list and any per_page, create_embeds returns
\* a list, and its descriptions joined in order are exactly the rendered
\* lines in input order, each followed by a newline: neither split drops,
\* repeats or reorders a record.
C21_NothingLost ==
    (ce_pc = "returned" /\ ce_arguments # <<>>) =>
        /\ ce_result # None
        /\ concat(ce_result[1]) = rendered(ce_arguments)

\* Four records that meet both splits: the count split before records 0 and
\* 2, the length split before record 1.
C21_Witness ==
    /\ ce_pc = "returned" /\ ce_per_page = Some(2)
    /\ ce_arguments = <<Arg("a", 4095), Arg("b", 3), Arg("a", 3), Arg("b", 3)>>
    /\ ce_result # None
    /\ Len(ce_result[1]) = 4
    /\ line_count(ce_result[1][4]) = 2
    /\ concat(ce_result[1]) = rendered(ce_arguments)

\* ------------------------------------------------ claims on the session (C22, C23)
\* C22 (as claimed): when the edit of on_timeout fails, the failure is
\* suppressed and on_timeout ends with all four buttons disabled; when the
\* edit of a button callback fails, the callback ends with HTTPException.
C22_SuppressedOnlyAtTimeout ==
    /\ [][(timer = "edit" /\ timer' # "edit") =>
             /\ timer' \in {"done", "suppressed"}
             /\ finished'
             /\ timer' = "suppressed" => \A b \in Buttons : disabled'[b]]_vars
    /\ [][(\E t \in BagToSet(tasks) :
               /\ t.pc = "edit"
               /\ tasks' = tasks (-) SetToBag({t})
               /\ message' # t.out[1]) => outcome' = "HTTPException"]_vars

\* C23 (as claimed): every accepted button press, at any cursor, ends with a
\* render that shows the page at the resulting cur_page: its content as the
\* description and, when show_page_count is set, "Page <cur_page> of
\* <total>" as the footer.  (A callback whose edit fails in transport is not
\* counted.)
C23_EndsWithMatchingRender ==
    [][((\E t \in BagToSet(tasks) : tasks' = tasks (-) SetToBag({t}))
        /\ outcome' # "HTTPException") =>
           /\ outcome' = "returned"
           /\ message'.embed = paginator_embed(pages, cur_page', show_page_count)]_vars

====
